---------------------------- MODULE Spec2Model ----------------------------
(***************************************************************************)
(* Model of backend/src/api/verification.ts: the slip verification route   *)
(* (router.post "/"), its retry helper verifySlipWithRetry and the name    *)
(* normalisation helper normalizeName.                                     *)
(*                                                                         *)
(* A JavaScript string is a sequence of one-character strings.  A request  *)
(* handler is a process whose steps are the stretches of code between two  *)
(* awaits; the appointment collection is the only state handlers share.    *)
(***************************************************************************)
EXTENDS Integers, Sequences, FiniteSets, TLC

\* ------------------------------------------------------------------ bounds
\* Requests that arrive, one at a time, under SpecSeq.
NReq == 3
\* Requests that arrive under Spec; their handlers may all overlap in time.
NConcurrent == 2
\* Longest input string of the normalizeName specification.
MaxLen == 4
\* Milliseconds by which a timer may fire after it is due.
MaxLate == 1

\* ----------------------------------------------------------------- strings
Lower == <<"a","b","c","d","e","f","g","h","i","j","k","l","m",
           "n","o","p","q","r","s","t","u","v","w","x","y","z">>
Upper == <<"A","B","C","D","E","F","G","H","I","J","K","L","M",
           "N","O","P","Q","R","S","T","U","V","W","X","Y","Z">>
Digits == {"0","1","2","3","4","5","6","7","8","9"}
Whitespace == {" "}

LowerSet == {Lower[i] : i \in 1..26}
UpperSet == {Upper[i] : i \in 1..26}
UpperOf == [c \in LowerSet |-> Upper[CHOOSE i \in 1..26 : Lower[i] = c]]
LowerOf == [c \in UpperSet |-> Lower[CHOOSE i \in 1..26 : Upper[i] = c]]
IsLower(c) == c \in LowerSet
IsUpper(c) == c \in UpperSet
ToUpperChar(c) == IF IsLower(c) THEN UpperOf[c] ELSE c
ToLowerChar(c) == IF IsUpper(c) THEN LowerOf[c] ELSE c

\* String.prototype.toUpperCase on ASCII text.
toUpperCase(s) == [i \in 1..Len(s) |-> ToUpperChar(s[i])]

\* String.prototype.trim: drop leading and trailing white space.
RECURSIVE trimStart(_)
trimStart(s) ==
  IF s # <<>> /\ Head(s) \in Whitespace THEN trimStart(Tail(s)) ELSE s
RECURSIVE trimEnd(_)
trimEnd(s) ==
  IF s # <<>> /\ s[Len(s)] \in Whitespace THEN trimEnd(SubSeq(s, 1, Len(s) - 1)) ELSE s
trim(s) == trimEnd(trimStart(s))

\* The alternatives of /^(mr|mrs|ms|dr)\.?/i in the order the regular
\* expression tries them.
Honorifics == << <<"m","r">>, <<"m","r","s">>, <<"m","s">>, <<"d","r">> >>

\* Alternative h matches at the start of s, ignoring case (the i flag).
MatchesHonorific(s, h) ==
  /\ Len(s) >= Len(h)
  /\ \A i \in 1..Len(h) : ToLowerChar(s[i]) = h[i]

\* Length of the match of /^(mr|mrs|ms|dr)\.?/i on s, -1 when there is none.
\* The first alternative that matches wins: the optional period after it can
\* match the empty string, so the engine never backtracks to a later one.
HonorificMatchLen(s) ==
  IF \A k \in 1..Len(Honorifics) : ~MatchesHonorific(s, Honorifics[k])
  THEN -1
  ELSE LET k == CHOOSE j \in 1..Len(Honorifics) :
                  /\ MatchesHonorific(s, Honorifics[j])
                  /\ \A l \in 1..(j - 1) : ~MatchesHonorific(s, Honorifics[l])
           n == Len(Honorifics[k])
       IN  IF Len(s) > n /\ s[n + 1] = "." THEN n + 1 ELSE n

\* name.replace(/^(mr|mrs|ms|dr)\.?/i, "")
stripHonorific(s) ==
  IF HonorificMatchLen(s) < 0 THEN s
  ELSE SubSeq(s, HonorificMatchLen(s) + 1, Len(s))

IsAlnum(c) == IsLower(c) \/ IsUpper(c) \/ c \in Digits

\* .replace(/[^a-zA-Z0-9]/g, "")
stripNonAlnum(s) == SelectSeq(s, IsAlnum)

normalizeName(name) == trim(toUpperCase(stripNonAlnum(stripHonorific(name))))


\* ------------------------------------------------------------ value spaces
Reqs == 1..NReq

\* Appointment documents of the collection, by document id.  The handler
\* never creates or deletes one.
ApptIds == {1, 2}
BookingIdOf(a) == IF a = 1 THEN "B1" ELSE "B2"

\* Request body fields; "" and 0 are the falsy values (a missing field).
BookingIDs == {"", "B1", "B2", "B9"}
RefNbrs == {"", "R1", "R2"}
Amounts == {0, 100}
Bodies == [bookingID : BookingIDs, refNbr : RefNbrs, amount : Amounts]
NoBody == [bookingID |-> "", refNbr |-> "", amount |-> 0]

\* process.env: "" and <<>> stand for an unset variable.
Tokens == {"", "tok"}
DrSom == <<"D","r","."," ","S","o","m">>
MrSom == <<"m","r"," ","s","o","m">>
Bob == <<"B","o","b">>
ReceiverNames == {<<>>, DrSom}

\* What axios resolves with (response.data of a 2xx answer).
NullResponse ==
  [kind |-> "null", success |-> "absent", msg |-> "", hasName |-> FALSE,
   name |-> <<>>, statusMessage |-> ""]
ObjResponse(success, msg, hasName, name, statusMessage) ==
  [kind |-> "object", success |-> success, msg |-> msg, hasName |-> hasName,
   name |-> name, statusMessage |-> statusMessage]
ProviderResponses ==
  { NullResponse,
    ObjResponse("false", "declined", FALSE, <<>>, ""),
    ObjResponse("absent", "", FALSE, <<>>, ""),
    ObjResponse("string", "", TRUE, MrSom, ""),
    ObjResponse("true", "", FALSE, <<>>, ""),
    ObjResponse("true", "", TRUE, Bob, "OK"),
    ObjResponse("true", "", TRUE, MrSom, "OK"),
    ObjResponse("true", "", TRUE, MrSom, "") }

\* What axios rejects with: network error, timeout, non-2xx status.
ProviderErrors == {"network", "timeout", "http"}

\* paymentVerification sub-record; status "unset" is the absent sub-record.
NoVerification ==
  [status |-> "unset", verifiedAt |-> 0, decodedString |-> "", notes |-> ""]

InitialAppointment(a) ==
  [id |-> a, bookingId |-> BookingIdOf(a),
   userDetails |-> [name |-> "user", email |-> "user@mail"],
   timeSlot |-> [date |-> "d", time |-> "t"],
   amount |-> 100,
   paymentVerification |-> NoVerification]

\* The HTTP response; code 0: none sent yet.  debug and data are <<>> when
\* the body has no such key.
NoRes == [code |-> 0, status |-> "", message |-> "", debug |-> <<>>, data |-> <<>>]
Reply(code, status, message, debug, data) ==
  [code |-> code, status |-> status, message |-> message, debug |-> debug,
   data |-> data]

\* What one handler run did so far (observation only, the code keeps none of
\* it): database lookups issued, provider attempts started, waits slept,
\* receiver checks made, saves issued and succeeded, documents written,
\* e-mails issued and their outcome, responses sent, the decodedString values
\* stored at the time the idempotency lookup completed, the error handed to the outer
\* catch, how the provider answered the latest completed attempt, and the
\* milliseconds that passed in the wait before the attempt now in flight.
NoOutcome == [attempt |-> 0, ok |-> FALSE, data |-> NullResponse, err |-> ""]
NoLog ==
  [lookups |-> 0, calls |-> 0, waits |-> <<>>, nameChecks |-> 0, saves |-> 0,
   saved |-> 0, wrote |-> {}, mails |-> 0, mailed |-> "none", sent |-> 0,
   refStore |-> <<>>, thrown |-> <<>>, outcome |-> NoOutcome, slept |-> 0]

VARIABLES
  env,          \* process.env: OPEN_SLIP_VERIFY_TOKEN, PROMPTPAY_RECEIVER_NAME
  appts,        \* the Appointment collection
  pc,           \* where each handler run stands
  body,         \* req.body
  attempt,      \* verifySlipWithRetry's loop variable
  response,     \* what verifySlipWithRetry returned
  appointment,  \* the document findOne({bookingId}) returned, as edited
  res,          \* the response sent
  log,          \* what the run did
  consumed,     \* reference numbers of the requests answered 200
  nameArg,      \* normalizeName specification: the input string
  nameOut       \* normalizeName specification: results of repeated calls

vars == <<env, appts, pc, body, attempt, response, appointment, res, log,
          consumed, nameArg, nameOut>>
handlerVars == <<env, appts, pc, body, attempt, response, appointment, res,
                 log, consumed>>

\* ------------------------------------------------------- the code's tests
\* Variant: one attempt more than the default.
retries_OneMore == 3 + 1

\* verifySlipWithRetry's default: retries = 3.
retries == 3

\* Variant: the amount is not checked.
MissingFields_NoAmount(b) == b.bookingID = "" \/ b.refNbr = ""

\* !bookingID || !refNbr || !amount
MissingFields(b) == b.bookingID = "" \/ b.refNbr = "" \/ b.amount = 0

\* Variant: only the token is required.
Misconfigured_TokenOnly(e) == e.OPEN_SLIP_VERIFY_TOKEN = ""

\* !token || !expectedReceiverName
Misconfigured(e) ==
  e.OPEN_SLIP_VERIFY_TOKEN = "" \/ e.PROMPTPAY_RECEIVER_NAME = <<>>

\* Variant: the filter names the wrong path of the sub-record.
ExistingAppointment_WrongPath(store, refNbr) ==
  {a \in ApptIds : /\ store[a].paymentVerification.status # "unset"
                   /\ store[a].paymentVerification.notes = refNbr}

\* Appointment.findOne({"paymentVerification.decodedString": refNbr}): the
\* documents the filter matches.
ExistingAppointment(store, refNbr) ==
  {a \in ApptIds : /\ store[a].paymentVerification.status # "unset"
                   /\ store[a].paymentVerification.decodedString = refNbr}

\* The decodedString values the collection holds.
StoredRefs(store) ==
  {store[a].paymentVerification.decodedString :
     a \in {x \in ApptIds : store[x].paymentVerification.status # "unset"}}

\* Variant: the filter names no field of the schema and matches every
\* document.
FindByBookingId_NoFilter(store, bookingID) == ApptIds

\* Appointment.findOne({bookingId: bookingID}): the documents it matches.
FindByBookingId(store, bookingID) ==
  {a \in ApptIds : store[a].bookingId = bookingID}

\* Variant: a truthiness test, !response?.success, negated.
IsSuccess_Truthy(resp) == resp.kind = "object" /\ resp.success \in {"true", "string"}

\* response?.success !== true, negated.
IsSuccess(resp) == resp.kind = "object" /\ resp.success = "true"

\* response?.msg || "Verification unsuccessful"
FailureMessage(resp) == IF resp.msg = "" THEN "Verification unsuccessful" ELSE resp.msg

\* receiver?.name || ""
ReturnedName(resp) == IF resp.hasName THEN resp.name ELSE <<>>

\* Variant: the same wait after every failed attempt.
WaitTime_Fixed(k) == 1000

\* attempt * 1000
WaitTime(k) == k * 1000

\* The number of requests received so far stands for new Date().
Now == Cardinality({q \in Reqs : pc[q] # "idle"})

\* The paymentVerification the handler assigns.
VerifiedRecord(refNbr, resp, t) ==
  [status |-> "verified", verifiedAt |-> t, decodedString |-> refNbr,
   notes |-> resp.statusMessage]

\* Variant: the update carries no filter and reaches every document.
SaveDocument_EveryDocument(store, doc) ==
  [a \in ApptIds |-> [store[a] EXCEPT !.paymentVerification = doc.paymentVerification]]

\* Variant: the write replaces the whole document and loses its amount.
SaveDocument_Replace(store, doc) ==
  [store EXCEPT ![doc.id] = [doc EXCEPT !.amount = 0]]

\* appointment.save(): writes the modified path of the document.
SaveDocument(store, doc) ==
  [store EXCEPT ![doc.id].paymentVerification = doc.paymentVerification]

\* Variant: the two names change places.
MismatchReply_Swapped(expected, got) ==
  Reply(400, "failed", "Receiver account mismatch", <<got, expected>>, <<>>)

\* The 400 of a receiver mismatch, with both normalized names.
MismatchReply(expected, got) ==
  Reply(400, "failed", "Receiver account mismatch", <<expected, got>>, <<>>)

\* Variant: the outer catch answers with a client error.
ServerError_ClientError ==
  Reply(400, "failed", "Server error or verification failed", <<>>, <<>>)

\* The outer catch's answer.
ServerError == Reply(500, "failed", "Server error or verification failed", <<>>, <<>>)


\* -------------------------------------------------------------------- Init
HandlerInit ==
  /\ env \in [OPEN_SLIP_VERIFY_TOKEN : Tokens, PROMPTPAY_RECEIVER_NAME : ReceiverNames]
  /\ appts = [a \in ApptIds |-> InitialAppointment(a)]
  /\ pc = [r \in Reqs |-> "idle"]
  /\ body = [r \in Reqs |-> NoBody]
  /\ attempt = [r \in Reqs |-> 0]
  /\ response = [r \in Reqs |-> NullResponse]
  /\ appointment = [r \in Reqs |-> <<>>]
  /\ res = [r \in Reqs |-> NoRes]
  /\ log = [r \in Reqs |-> NoLog]
  /\ consumed = {}

Init == HandlerInit /\ nameArg = <<>> /\ nameOut = <<>>

\* ------------------------------------------------------- handler: helpers
InFlight == {q \in Reqs : pc[q] \notin {"idle", "done", "retired"}}

\* A handler run that has responded has returned: its locals are gone when
\* the next request arrives.
Retire(f, blank) == [q \in Reqs |-> IF pc[q] \in {"done", "retired"} THEN blank ELSE f[q]]
RetiredPc == [q \in Reqs |-> IF pc[q] = "done" THEN "retired" ELSE pc[q]]

\* res.status(code).json(...) and return: the run is over.
Respond(r, reply) ==
  /\ pc' = [pc EXCEPT ![r] = "done"]
  /\ res' = [res EXCEPT ![r] = reply]
  /\ consumed' = IF reply.code = 200 THEN consumed \cup {body[r].refNbr} ELSE consumed

\* ------------------------------------------------ router.post, lines 50-91
\* From the request's arrival to the first await: the field check, the
\* configuration check and the call of the idempotency lookup.
Start(r, b) ==
  /\ body' = [Retire(body, NoBody) EXCEPT ![r] = b]
  /\ attempt' = Retire(attempt, 0)
  /\ response' = Retire(response, NullResponse)
  /\ appointment' = Retire(appointment, <<>>)
  /\ UNCHANGED <<env, appts, consumed>>
  /\ IF MissingFields(b)
     THEN /\ pc' = [RetiredPc EXCEPT ![r] = "done"]
          /\ res' = [Retire(res, NoRes) EXCEPT
                       ![r] = Reply(400, "failed", "Missing required fields", <<>>, <<>>)]
          /\ log' = [Retire(log, NoLog) EXCEPT ![r].sent = 1]
     ELSE IF Misconfigured(env)
     THEN /\ pc' = [RetiredPc EXCEPT ![r] = "done"]
          /\ res' = [Retire(res, NoRes) EXCEPT
                       ![r] = Reply(500, "failed", "Server misconfiguration", <<>>, <<>>)]
          /\ log' = [Retire(log, NoLog) EXCEPT ![r].sent = 1]
     ELSE /\ pc' = [RetiredPc EXCEPT ![r] = "findRef"]
          /\ res' = Retire(res, NoRes)
          /\ log' = [Retire(log, NoLog) EXCEPT ![r].lookups = 1]

\* Requests arrive in the order of their numbers.
NextToArrive(r) == pc[r] = "idle" /\ \A q \in Reqs : q < r => pc[q] # "idle"

Receive(r) ==
  /\ NextToArrive(r)
  /\ r <= NConcurrent
  /\ \E b \in Bodies : Start(r, b)
  /\ UNCHANGED <<nameArg, nameOut>>

\* A request arrives while no other is being handled.
ReceiveAlone(r) ==
  /\ NextToArrive(r)
  /\ InFlight = {}
  /\ \E b \in Bodies : Start(r, b)
  /\ UNCHANGED <<nameArg, nameOut>>

\* The outer catch: any rejected await ends the run with 500.
Catch(r, err) ==
  /\ Respond(r, ServerError)
  /\ log' = [log EXCEPT ![r].sent = @ + 1, ![r].thrown = <<err>>]
  /\ UNCHANGED <<env, appts, body, attempt, response, appointment, nameArg, nameOut>>

\* The idempotency lookup resolves: 409 on a match, else the first provider
\* attempt starts.
FindRefReturns(r) ==
  /\ pc[r] = "findRef"
  /\ IF ExistingAppointment(appts, body[r].refNbr) # {}
     THEN /\ Respond(r, Reply(409, "failed", "Reference number already used", <<>>, <<>>))
          /\ log' = [log EXCEPT ![r].sent = @ + 1, ![r].refStore = <<StoredRefs(appts)>>]
          /\ UNCHANGED attempt
     ELSE /\ pc' = [pc EXCEPT ![r] = "provider"]
          /\ attempt' = [attempt EXCEPT ![r] = 1]
          /\ log' = [log EXCEPT ![r].calls = @ + 1, ![r].refStore = <<StoredRefs(appts)>>]
          /\ UNCHANGED <<res, consumed>>
  /\ UNCHANGED <<env, appts, body, response, appointment, nameArg, nameOut>>

FindRefThrows(r) ==
  /\ pc[r] = "findRef"
  /\ Respond(r, ServerError)
  /\ log' = [log EXCEPT ![r].sent = @ + 1, ![r].thrown = <<"db">>,
                        ![r].refStore = <<StoredRefs(appts)>>]
  /\ UNCHANGED <<env, appts, body, attempt, response, appointment, nameArg, nameOut>>

\* ------------------------------------- verifySlipWithRetry, lines 20-48
Failed(k, err) == [attempt |-> k, ok |-> FALSE, data |-> NullResponse, err |-> err]
Answered(k, data) == [attempt |-> k, ok |-> TRUE, data |-> data, err |-> ""]

\* An attempt fails: rethrow on the last one, else sleep attempt * 1000 ms.
ProviderThrows(r) ==
  /\ pc[r] = "provider"
  /\ \E err \in ProviderErrors :
       IF attempt[r] = retries
       THEN /\ Respond(r, ServerError)
            /\ log' = [log EXCEPT ![r].sent = @ + 1, ![r].thrown = <<err>>,
                                  ![r].outcome = Failed(attempt[r], err),
                                  ![r].slept = 0]
            /\ attempt' = [attempt EXCEPT ![r] = 0]
       ELSE /\ pc' = [pc EXCEPT ![r] = "waiting"]
            /\ log' = [log EXCEPT ![r].waits = Append(@, WaitTime(attempt[r])),
                                  ![r].outcome = Failed(attempt[r], err),
                                  ![r].slept = 0]
            /\ UNCHANGED <<attempt, res, consumed>>
  /\ UNCHANGED <<env, appts, body, response, appointment, nameArg, nameOut>>

\* Variant: the promise of the wait is never resolved.
WaitElapsed_Never(r) ==
  /\ pc[r] = "waiting"
  /\ FALSE
  /\ UNCHANGED vars

\* setTimeout(r, waitTime) runs its callback once waitTime ms have passed, at
\* that time or later: the loop starts the next attempt.
WaitElapsed(r) ==
  /\ pc[r] = "waiting"
  /\ pc' = [pc EXCEPT ![r] = "provider"]
  /\ attempt' = [attempt EXCEPT ![r] = @ + 1]
  /\ \E late \in 0..MaxLate :
       log' = [log EXCEPT ![r].calls = @ + 1,
                          ![r].slept = log[r].waits[Len(log[r].waits)] + late]
  /\ UNCHANGED <<env, appts, body, response, appointment, res, consumed, nameArg, nameOut>>

\* ----------------------------------------------- router.post, lines 94-125
\* An attempt succeeds: verifySlipWithRetry returns response.data, and the
\* handler runs on to the appointment lookup or to a 400.
ProviderReturns(r) ==
  /\ pc[r] = "provider"
  /\ \E data \in ProviderResponses :
       /\ response' = [response EXCEPT ![r] = data]
       /\ IF ~IsSuccess(data)
          THEN /\ Respond(r, Reply(400, "failed", FailureMessage(data), <<>>, <<>>))
               /\ log' = [log EXCEPT ![r].sent = @ + 1,
                                     ![r].outcome = Answered(attempt[r], data),
                                              ![r].slept = 0]
          ELSE LET normalizedExpectedName == normalizeName(env.PROMPTPAY_RECEIVER_NAME)
                   normalizedReturnedName == normalizeName(ReturnedName(data))
               IN  IF normalizedExpectedName # normalizedReturnedName
                   THEN /\ Respond(r, MismatchReply(normalizedExpectedName,
                                                     normalizedReturnedName))
                        /\ log' = [log EXCEPT ![r].sent = @ + 1, ![r].nameChecks = @ + 1,
                                              ![r].outcome = Answered(attempt[r], data),
                                              ![r].slept = 0]
                   ELSE /\ pc' = [pc EXCEPT ![r] = "findBooking"]
                        /\ log' = [log EXCEPT ![r].nameChecks = @ + 1, ![r].lookups = @ + 1,
                                              ![r].outcome = Answered(attempt[r], data),
                                              ![r].slept = 0]
                        /\ UNCHANGED <<res, consumed>>
  /\ attempt' = [attempt EXCEPT ![r] = 0]
  /\ UNCHANGED <<env, appts, body, appointment, nameArg, nameOut>>

\* ---------------------------------------------- router.post, lines 125-140
\* The appointment lookup resolves: 404, or the document is edited in memory
\* and save() is called.
FindBookingReturns(r) ==
  /\ pc[r] = "findBooking"
  /\ LET found == FindByBookingId(appts, body[r].bookingID)
     IN  IF found = {}
         THEN /\ Respond(r, Reply(404, "failed", "Appointment not found", <<>>, <<>>))
              /\ log' = [log EXCEPT ![r].sent = @ + 1]
              /\ UNCHANGED appointment
         ELSE LET a == CHOOSE x \in found : \A y \in found : x <= y
                  doc == [appts[a] EXCEPT !.paymentVerification =
                            VerifiedRecord(body[r].refNbr, response[r], Now)]
              IN  /\ appointment' = [appointment EXCEPT ![r] = <<doc>>]
                  /\ pc' = [pc EXCEPT ![r] = "saving"]
                  /\ log' = [log EXCEPT ![r].saves = @ + 1]
                  /\ UNCHANGED <<res, consumed>>
  /\ UNCHANGED <<env, appts, body, attempt, response, nameArg, nameOut>>

FindBookingThrows(r) ==
  /\ pc[r] = "findBooking"
  /\ Catch(r, "db")

\* ---------------------------------------------- router.post, lines 140-171
\* save() resolves: the document is stored and sendEmail is called.
SaveReturns(r) ==
  /\ pc[r] = "saving"
  /\ appts' = SaveDocument(appts, appointment[r][1])
  /\ pc' = [pc EXCEPT ![r] = "emailing"]
  /\ log' = [log EXCEPT ![r].saved = @ + 1, ![r].mails = @ + 1,
                        ![r].wrote = @ \cup {appointment[r][1].id}]
  /\ UNCHANGED <<env, body, attempt, response, appointment, res, consumed, nameArg, nameOut>>

\* Variant: the rejection of save is swallowed and the handler goes on to the
\* e-mail.
SaveThrows_Swallowed(r) ==
  /\ pc[r] = "saving"
  /\ pc' = [pc EXCEPT ![r] = "emailing"]
  /\ log' = [log EXCEPT ![r].mails = @ + 1]
  /\ UNCHANGED <<env, appts, body, attempt, response, appointment, res,
                 consumed, nameArg, nameOut>>

\* Variant: the document is written before save rejects.
SaveThrows_Written(r) ==
  /\ pc[r] = "saving"
  /\ appts' = SaveDocument(appts, appointment[r][1])
  /\ pc' = [pc EXCEPT ![r] = "done"]
  /\ res' = [res EXCEPT ![r] = ServerError]
  /\ log' = [log EXCEPT ![r].sent = @ + 1, ![r].thrown = <<"db">>]
  /\ UNCHANGED <<env, body, attempt, response, appointment, consumed,
                 nameArg, nameOut>>

SaveThrows(r) ==
  /\ pc[r] = "saving"
  /\ Catch(r, "db")

\* ---------------------------------------------- router.post, lines 164-178
\* sendEmail resolves or rejects; the inner catch only logs.  Either way the
\* handler answers 200 with the document.
EmailDone(r, outcome) ==
  /\ pc[r] = "emailing"
  /\ Respond(r, Reply(200, "verified",
                      "Slip verified, appointment updated, and email sent",
                      <<>>, appointment[r]))
  /\ log' = [log EXCEPT ![r].sent = @ + 1, ![r].mailed = outcome]
  /\ UNCHANGED <<env, appts, body, attempt, response, appointment, nameArg, nameOut>>

\* Variant: no inner try/catch, a rejected sendEmail reaches the outer catch.
EmailThrows_Propagates(r) ==
  /\ pc[r] = "emailing"
  /\ Catch(r, "mail")

EmailReturns(r) == EmailDone(r, "sent")
EmailThrows(r) == EmailDone(r, "threw")

\* -------------------------------------------------------- specifications
Step(r) ==
  \/ FindRefReturns(r)
  \/ FindRefThrows(r)
  \/ ProviderThrows(r)
  \/ WaitElapsed(r)
  \/ ProviderReturns(r)
  \/ FindBookingReturns(r)
  \/ FindBookingThrows(r)
  \/ SaveReturns(r)
  \/ SaveThrows(r)
  \/ EmailReturns(r)
  \/ EmailThrows(r)

\* The handlers of NConcurrent requests interleave at their awaits.
Next == \E r \in Reqs : Receive(r) \/ Step(r)
Spec == Init /\ [][Next]_vars

\* One request at a time.
NextSeq == \E r \in Reqs : ReceiveAlone(r) \/ Step(r)
SpecSeq == Init /\ [][NextSeq]_vars

\* Every await of a run settles: the database, the provider and the mailer
\* answer or fail, and the timer fires.  A run with a step to take takes it.
Fairness == \A r \in Reqs : WF_vars(Step(r))
SpecLive == Init /\ [][NextSeq]_vars /\ Fairness


\* ------------------------------------------------ normalizeName, lines 9-17
\* Characters of the enumerated inputs: letters of both cases, a digit, the
\* period, the space and the apostrophe.
Alphabet == {"d", "r", "m", "s", "D", "R", "a", "1", ".", " ", "'"}

DrDrake == <<"D","r","."," ","D","r","a","k","e">>
DrJaneOBrien == <<"D","r","."," ","J","a","n","e"," ","O","'","B","r","i","e","n">>
JaneOBrienUpper == <<"J","A","N","E"," ","O","B","R","I","E","N">>
Smith == <<"S","m","i","t","h">>
SmithUpper == <<"S","M","I","T","H">>
Titles == { <<"m","r">>, <<"M","r","s">>, <<"M","S">>, <<"d","R">>,
            <<"M","r",".">>, <<"m","r","s",".">>, <<"m","s",".">>, <<"D","r",".">> }
NamedInputs ==
  {DrDrake, DrJaneOBrien, JaneOBrienUpper, Smith, SmithUpper, DrSom, MrSom, Bob}
    \cup {t \o <<" ">> \o Smith : t \in Titles}

NameInputs == (UNION {[1..n -> Alphabet] : n \in 0..MaxLen}) \cup NamedInputs

InitNorm ==
  /\ HandlerInit
  /\ env = [OPEN_SLIP_VERIFY_TOKEN |-> "tok", PROMPTPAY_RECEIVER_NAME |-> DrSom]
  /\ nameArg \in NameInputs
  /\ nameOut = <<>>

\* normalizeName is called on the input, then on its own result.
CallNormalize ==
  /\ Len(nameOut) < 2
  /\ nameOut' = Append(nameOut, normalizeName(IF nameOut = <<>> THEN nameArg
                                              ELSE nameOut[Len(nameOut)]))
  /\ UNCHANGED <<nameArg, handlerVars>>

NextNorm == CallNormalize
SpecNorm == InitNorm /\ [][NextNorm]_vars


\* -------------------------------------------------------- properties
\* Vocabulary of the properties.
Replied(r, code, status) ==
  /\ pc[r] = "done"
  /\ res[r].code = code
  /\ res[r].status = status
  /\ log[r].sent = 1

\* The run saved nothing, wrote no document and sent no e-mail.
NoSideEffects(r) == log[r].saves = 0 /\ log[r].wrote = {} /\ log[r].mails = 0

\* The idempotency lookup of r completed while some appointment stored r's
\* refNbr as decodedString.
RefMatched(r) ==
  /\ ~MissingFields(body[r])
  /\ ~Misconfigured(env)
  /\ log[r].refStore # <<>>
  /\ body[r].refNbr \in log[r].refStore[1]

\* C1 as stated: for every request with all three fields present and both
\* secrets configured whose refNbr equals the decodedString of a stored
\* appointment at the time of the idempotency lookup, the handler responds 409
\* with status "failed", makes no provider call and mutates no appointment.
C1_DuplicateAlways409 ==
  \A r \in Reqs :
    RefMatched(r) =>
      /\ Replied(r, 409, "failed")
      /\ log[r].calls = 0
      /\ NoSideEffects(r)

\* C1 amended: such a request makes no provider call and mutates no
\* appointment; it is answered 409 "failed" when the idempotency lookup
\* resolves, and 500 "failed" when the lookup itself rejects.
C1_DuplicateRejected ==
  \A r \in Reqs :
    RefMatched(r) =>
      /\ log[r].calls = 0
      /\ NoSideEffects(r)
      /\ IF log[r].thrown = <<>>
         THEN Replied(r, 409, "failed")
         ELSE Replied(r, 500, "failed") /\ log[r].thrown = <<"db">>

\* A request answered 409 for a reference another appointment holds.
C1_Witness ==
  \E r \in Reqs :
    /\ RefMatched(r)
    /\ Replied(r, 409, "failed")
    /\ \E a \in ApptIds :
         /\ appts[a].paymentVerification.decodedString = body[r].refNbr
         /\ appts[a].bookingId # body[r].bookingID

\* The appointment r names holds r's refNbr as verified.
StoredFor(store, r) ==
  \A a \in ApptIds :
    store[a].bookingId = body[r].bookingID =>
      /\ store[a].paymentVerification.status = "verified"
      /\ store[a].paymentVerification.decodedString = body[r].refNbr

\* C2: once the save of a request succeeds (the provider answered success =
\* true with a matching receiver name and the appointment exists), the
\* appointment is stored verified with decodedString = refNbr, and the handler
\* answers 200 "verified" with the updated record whether the e-mail is sent
\* or throws; the e-mail step changes neither the store nor the answer.
C2_VerifiedDespiteEmail ==
  [][\A r \in Reqs :
       /\ (log[r].saved = 0 /\ log'[r].saved = 1) =>
            /\ StoredFor(appts, r)'
            /\ \E a \in ApptIds : <<appts'[a]>> = appointment'[r]
       /\ log'[r].saved = 1 =>
            /\ IsSuccess(response'[r])
            /\ normalizeName(ReturnedName(response'[r]))
                 = normalizeName(env'.PROMPTPAY_RECEIVER_NAME)
            /\ \/ pc'[r] = "emailing" /\ log'[r].mailed = "none"
               \/ /\ Replied(r, 200, "verified")'
                  /\ log'[r].mailed \in {"sent", "threw"}
                  /\ res'[r].data = appointment'[r]
                  /\ res'[r].data[1].bookingId = body'[r].bookingID
                  /\ res'[r].data[1].paymentVerification.status = "verified"
                  /\ res'[r].data[1].paymentVerification.decodedString = body'[r].refNbr
       /\ (pc[r] = "emailing" /\ pc'[r] # "emailing") =>
            /\ appts' = appts
            /\ res'[r].code = 200
  ]_vars

\* A request answered 200 although its e-mail threw, its appointment verified.
C2_Witness ==
  \E r \in Reqs :
    /\ Replied(r, 200, "verified")
    /\ log[r].mailed = "threw"
    /\ StoredFor(appts, r)

\* C3: with requests handled one at a time, no two appointments ever hold the
\* same decodedString.
C3_UniqueReference ==
  \A a, b \in ApptIds :
    (/\ a # b
     /\ appts[a].paymentVerification.status # "unset"
     /\ appts[b].paymentVerification.status # "unset")
      => appts[a].paymentVerification.decodedString
           # appts[b].paymentVerification.decodedString

\* Both appointments are verified, and a request that offered the reference
\* of the other appointment was turned away.
C3_Witness ==
  /\ \A a \in ApptIds : appts[a].paymentVerification.status = "verified"
  /\ \E r \in Reqs :
       /\ Replied(r, 409, "failed")
       /\ \E a \in ApptIds :
            /\ appts[a].bookingId = body[r].bookingID
            /\ appts[a].paymentVerification.decodedString # body[r].refNbr

\* C4: verifySlipWithRetry starts at most 3 provider attempts for a request,
\* starts none after the attempt that succeeds, and when attempts 1 and 2
\* fail and attempt 3 succeeds it returns the data of attempt 3, not an error.
C4_AtMostThreeAttempts ==
  \A r \in Reqs :
    /\ log[r].calls <= 3
    /\ Len(log[r].waits) < 3
    /\ log[r].outcome.ok =>
         /\ log[r].calls = log[r].outcome.attempt
         /\ pc[r] \notin {"provider", "waiting"}
         /\ response[r] = log[r].outcome.data
         /\ \A e \in ProviderErrors : log[r].thrown # <<e>>
    /\ (Len(log[r].waits) = 2 /\ pc[r] = "waiting") => log[r].calls = 2

\* Attempts 1 and 2 failed and attempt 3 succeeded.
C4_Witness ==
  \E r \in Reqs :
    /\ log[r].outcome.ok
    /\ log[r].outcome.attempt = 3
    /\ Len(log[r].waits) = 2
    /\ IsSuccess(response[r])

\* C5: when all 3 provider attempts of a request fail, the error of the third
\* attempt is the one propagated, the handler answers 500 "failed", and the
\* request does no appointment lookup by bookingId, no mutation and no
\* notification.
C5_ProviderUnavailable ==
  \A r \in Reqs :
    (~log[r].outcome.ok /\ log[r].outcome.attempt = 3) =>
      /\ Replied(r, 500, "failed")
      /\ log[r].thrown = <<log[r].outcome.err>>
      /\ log[r].calls = 3
      /\ log[r].lookups = 1
      /\ log[r].nameChecks = 0
      /\ NoSideEffects(r)

\* Three attempts failed, the last by a timeout.
C5_Witness ==
  \E r \in Reqs :
    /\ log[r].waits = <<1000, 2000>>
    /\ log[r].outcome = [attempt |-> 3, ok |-> FALSE, data |-> NullResponse,
                         err |-> "timeout"]
    /\ res[r].code = 500

\* The provider answered r, and success is not the boolean true.
Unsuccessful(r) ==
  /\ log[r].outcome.ok
  /\ ~(log[r].outcome.data.kind = "object" /\ log[r].outcome.data.success = "true")

\* C6: a request whose provider answer has success false or absent (anything
\* but the boolean true) is answered 400 "failed", with no receiver check, no
\* appointment mutation and no notification.
C6_VerificationRejected ==
  \A r \in Reqs :
    Unsuccessful(r) =>
      /\ Replied(r, 400, "failed")
      /\ log[r].nameChecks = 0
      /\ NoSideEffects(r)

\* A provider answer whose success is the string "true" was turned away.
C6_Witness ==
  \E r \in Reqs :
    /\ Unsuccessful(r)
    /\ log[r].outcome.data.success = "string"
    /\ res[r].code = 400

\* The provider answered r with success = true.
Successful(r) ==
  /\ log[r].outcome.ok
  /\ log[r].outcome.data.kind = "object"
  /\ log[r].outcome.data.success = "true"

ExpectedNormalized == normalizeName(env.PROMPTPAY_RECEIVER_NAME)
ReturnedNormalized(r) ==
  normalizeName(IF log[r].outcome.data.hasName THEN log[r].outcome.data.name ELSE <<>>)

\* C7: a request whose provider answer has success = true and a receiver name
\* (the empty string when absent) that normalizes differently from the
\* configured name is answered 400 with debug.expected and debug.got the two
\* normalized strings, with no appointment lookup by bookingId, no mutation
\* and no notification.
C7_ReceiverMismatch ==
  \A r \in Reqs :
    (Successful(r) /\ ExpectedNormalized # ReturnedNormalized(r)) =>
      /\ Replied(r, 400, "failed")
      /\ res[r].debug = <<ExpectedNormalized, ReturnedNormalized(r)>>
      /\ log[r].lookups = 1
      /\ NoSideEffects(r)

\* A successful answer without a receiver name was turned away as a mismatch.
C7_Witness ==
  \E r \in Reqs :
    /\ Successful(r)
    /\ ~log[r].outcome.data.hasName
    /\ res[r].code = 400
    /\ res[r].debug = << <<"S","O","M">>, <<>> >>

\* r passed the provider verification and the receiver check, and no
\* appointment has r's bookingID.
VerifiedButUnknown(r) ==
  /\ Successful(r)
  /\ ExpectedNormalized = ReturnedNormalized(r)
  /\ \A a \in ApptIds : appts[a].bookingId # body[r].bookingID

\* C8 as stated: a request that passes the provider verification and the
\* receiver check while no appointment has its bookingID is answered 404,
\* mutates nothing, sends no notification and leaves refNbr unconsumed.
C8_UnknownAlways404 ==
  \A r \in Reqs :
    (VerifiedButUnknown(r) /\ pc[r] = "done") =>
      /\ Replied(r, 404, "failed")
      /\ NoSideEffects(r)

\* C8 amended: such a request mutates nothing, sends no notification and
\* leaves refNbr unconsumed; it is answered 404 when the appointment lookup
\* resolves, and 500 when the lookup itself rejects.
C8_UnknownRejected ==
  \A r \in Reqs :
    VerifiedButUnknown(r) =>
      /\ NoSideEffects(r)
      /\ \/ pc[r] = "findBooking"
         \/ log[r].thrown = <<>> /\ Replied(r, 404, "failed")
         \/ log[r].thrown = <<"db">> /\ Replied(r, 500, "failed")

\* A verified slip for an unknown booking was answered 404, its reference
\* stored nowhere.
C8_Witness ==
  \E r \in Reqs :
    /\ VerifiedButUnknown(r)
    /\ Replied(r, 404, "failed")
    /\ body[r].refNbr \notin StoredRefs(appts)

\* C9: a request in which bookingID, refNbr or amount is missing is answered
\* 400 "failed" with no database lookup, no provider call, no mutation and no
\* notification, whatever the configuration.
C9_MissingFields ==
  \A r \in Reqs :
    (/\ pc[r] \notin {"idle", "retired"}
     /\ (body[r].bookingID = "" \/ body[r].refNbr = "" \/ body[r].amount = 0)) =>
      /\ Replied(r, 400, "failed")
      /\ log[r].lookups = 0
      /\ log[r].calls = 0
      /\ NoSideEffects(r)

\* On a server without its secrets, a request that lacks only the amount was
\* answered 400.
C9_Witness ==
  \E r \in Reqs :
    /\ Misconfigured(env)
    /\ body[r].bookingID # "" /\ body[r].refNbr # "" /\ body[r].amount = 0
    /\ Replied(r, 400, "failed")

\* C10: normalizeName is idempotent: normalizing a normalized name gives it
\* back.
C10_Idempotent == Len(nameOut) = 2 => nameOut[2] = nameOut[1]

\* C11: a request with all three fields present that arrives while the
\* provider token or the receiver name is not configured is answered 500 with
\* status "failed", with no idempotency lookup, no provider call, no mutation
\* and no notification.
C11_Misconfiguration ==
  \A r \in Reqs :
    ( /\ pc[r] \notin {"idle", "retired"}
      /\ body[r].bookingID # "" /\ body[r].refNbr # "" /\ body[r].amount # 0
      /\ (env.OPEN_SLIP_VERIFY_TOKEN = "" \/ env.PROMPTPAY_RECEIVER_NAME = <<>>) ) =>
      /\ Replied(r, 500, "failed")
      /\ res[r].message = "Server misconfiguration"
      /\ log[r].lookups = 0
      /\ log[r].calls = 0
      /\ NoSideEffects(r)

\* A complete request was answered 500 while the token was configured and
\* the receiver name was not.
C11_Witness ==
  \E r \in Reqs :
    /\ env.OPEN_SLIP_VERIFY_TOKEN # "" /\ env.PROMPTPAY_RECEIVER_NAME = <<>>
    /\ body[r].bookingID = "B1" /\ body[r].refNbr = "R1" /\ body[r].amount = 100
    /\ Replied(r, 500, "failed")
    /\ log[r].lookups = 0

\* The run of r passed the idempotency pre-check: its lookup completed while
\* no appointment stored r's refNbr.
PassedPreCheck(r) ==
  /\ log[r].refStore # <<>>
  /\ body[r].refNbr \notin log[r].refStore[1]

\* Requests r and q carry the same refNbr for different bookingIDs, and both
\* passed the pre-check and saved.
Raced(r, q) ==
  /\ r # q
  /\ body[r].refNbr = body[q].refNbr
  /\ body[r].bookingID # body[q].bookingID
  /\ PassedPreCheck(r) /\ log[r].saved = 1
  /\ PassedPreCheck(q) /\ log[q].saved = 1

\* C12: the idempotency pre-check and the save are not atomic: two concurrent
\* requests with the same refNbr and different existing bookingIDs can both
\* pass the pre-check before either saves, so that both are answered 200 and
\* two distinct appointments hold the same decodedString (the witness). Every
\* run that saves has passed the pre-check, and two appointments hold the
\* same decodedString only when two such runs raced.
C12_DuplicateByRace ==
  /\ \A r \in Reqs : log[r].saved = 1 => PassedPreCheck(r)
  /\ \A a, b \in ApptIds :
       ( /\ a # b
         /\ appts[a].paymentVerification.status = "verified"
         /\ appts[b].paymentVerification.status = "verified"
         /\ appts[a].paymentVerification.decodedString =
              appts[b].paymentVerification.decodedString ) =>
         \E r, q \in Reqs : Raced(r, q)

\* Both requests were answered 200 and both appointments hold their refNbr.
C12_Witness ==
  \E r, q \in Reqs :
    /\ Raced(r, q)
    /\ Replied(r, 200, "verified") /\ Replied(q, 200, "verified")
    /\ \A a \in ApptIds :
         /\ appts[a].paymentVerification.status = "verified"
         /\ appts[a].paymentVerification.decodedString = body[r].refNbr

\* C13: once a request has been answered 200 and has set an appointment to
\* "verified", no later step changes that appointment's paymentVerification
\* (status, decodedString, verifiedAt, notes).
C13_VerifiedIsFinal ==
  [][\A a \in ApptIds :
       ( /\ appts[a].paymentVerification.status = "verified"
         /\ appts[a].paymentVerification.decodedString \in consumed ) =>
         appts'[a].paymentVerification = appts[a].paymentVerification]_vars

\* C14: a reference number is consumed for good: a request whose refNbr has
\* already been answered 200 is never itself answered 200, whatever requests
\* came in between.
C14_ReferenceConsumed ==
  [][\A r \in Reqs :
       (pc[r] # "done" /\ pc'[r] = "done" /\ body[r].refNbr \in consumed) =>
         res'[r].code # 200]_vars

\* C15: within one request the steps are ordered: the provider is called
\* only after the idempotency lookup found no match; the receiver name is
\* checked only after the provider answered success = true; the save is
\* attempted only after the names matched and the appointment was found; the
\* notification is attempted only after the save succeeded.
C15_StepOrder ==
  \A r \in Reqs :
    /\ log[r].calls > 0 => (log[r].lookups >= 1 /\ PassedPreCheck(r))
    /\ log[r].nameChecks > 0 => (log[r].calls > 0 /\ Successful(r))
    /\ log[r].saves > 0 =>
         /\ log[r].nameChecks = 1
         /\ ExpectedNormalized = ReturnedNormalized(r)
         /\ log[r].lookups = 2
         /\ appointment[r] # <<>>
         /\ appointment[r][1].bookingId = body[r].bookingID
    /\ log[r].mails > 0 => (log[r].saves = 1 /\ log[r].saved = 1)

\* A run is at its notification after a provider retry, a name check and a
\* save.
C15_Witness ==
  \E r \in Reqs :
    /\ pc[r] = "emailing"
    /\ log[r].calls = 2
    /\ log[r].nameChecks = 1
    /\ log[r].saved = 1
    /\ log[r].mails = 1

\* Provider attempts of r started and not yet completed.
AttemptsInFlight(r) ==
  IF pc[r] \in {"idle", "retired"} THEN 0 ELSE log[r].calls - log[r].outcome.attempt

\* C16 as stated, for the time slept: when attempt k + 1 is in flight, the
\* wait before it took exactly k * 1000 ms.
C16_ExactWait ==
  \A r \in Reqs :
    (pc[r] = "provider" /\ attempt[r] > 1) =>
      log[r].slept = (attempt[r] - 1) * 1000

\* C16: attempt k + 1 of a request starts only after attempt k failed and a
\* timer of exactly k * 1000 ms (1000 after attempt 1, 2000 after attempt 2)
\* has run out, so at least k * 1000 ms later; no wait follows a successful
\* attempt or the failure of the last attempt; at most one provider attempt
\* of a request is in flight at any time.
C16_LinearBackoff ==
  \A r \in Reqs :
    /\ \A i \in 1..Len(log[r].waits) : log[r].waits[i] = i * 1000
    /\ AttemptsInFlight(r) \in {0, 1}
    /\ AttemptsInFlight(r) = 1 <=> pc[r] = "provider"
    /\ pc[r] = "provider" =>
         /\ log[r].calls = attempt[r]
         /\ Len(log[r].waits) = attempt[r] - 1
         /\ attempt[r] > 1 =>
              /\ ~log[r].outcome.ok
              /\ log[r].outcome.attempt = attempt[r] - 1
              /\ log[r].slept >= (attempt[r] - 1) * 1000
    /\ pc[r] = "waiting" =>
         /\ ~log[r].outcome.ok
         /\ log[r].outcome.attempt = Len(log[r].waits)
         /\ log[r].outcome.attempt < 3
    /\ log[r].outcome.ok => Len(log[r].waits) = log[r].outcome.attempt - 1
    /\ (~log[r].outcome.ok /\ log[r].outcome.attempt = 3) =>
         (pc[r] = "done" /\ Len(log[r].waits) = 2)

\* The third attempt is in flight after timers of 1000 and 2000 ms, the
\* second of which ran out late.
C16_Witness ==
  \E r \in Reqs :
    /\ pc[r] = "provider"
    /\ attempt[r] = 3
    /\ log[r].waits = <<1000, 2000>>
    /\ log[r].slept > 2000

\* The algorithm as specified: the honorific removed is the one the name
\* starts with, "mrs" for a name that starts with "mrs".
SpecifiedHonorificLen(s) ==
  LET ks == {k \in 1..Len(Honorifics) : MatchesHonorific(s, Honorifics[k])}
  IN  IF ks = {} THEN 0
      ELSE LET k == CHOOSE j \in ks :
                      \A l \in ks : Len(Honorifics[l]) <= Len(Honorifics[j])
               n == Len(Honorifics[k])
           IN  IF Len(s) > n /\ s[n + 1] = "." THEN n + 1 ELSE n

SpecifiedNormalize(s) ==
  toUpperCase(stripNonAlnum(SubSeq(s, SpecifiedHonorificLen(s) + 1, Len(s))))

\* C17: normalizeName removes one leading honorific among mr, mrs, ms, dr in
\* any letter case with an optional period after it, deletes every character
\* that is not an ASCII letter or digit and upper-cases the rest; so for each
\* of the four honorifics h, with or without a period,
\* normalizeName(h + " Smith") = normalizeName("Smith") = "SMITH".
C17_HonorificRemoved ==
  Len(nameOut) >= 1 =>
    /\ nameOut[1] = SpecifiedNormalize(nameArg)
    /\ nameArg \in {t \o <<" ">> \o Smith : t \in Titles} \cup {Smith} =>
         nameOut[1] = <<"S","M","I","T","H">>

\* C18: when save throws after a successful verification and identity check,
\* the request is answered 500 with status "failed", no notification is
\* attempted, and the stored appointment is left as it was, without the new
\* paymentVerification; the refNbr is not recorded as answered 200.
C18_SaveFailure ==
  [][\A r \in Reqs :
       (pc[r] = "saving" /\ pc'[r] # "saving") =>
         \/ log'[r].saved = 1
         \/ /\ pc'[r] = "done"
            /\ res'[r].code = 500 /\ res'[r].status = "failed"
            /\ log'[r].sent = 1
            /\ log'[r].mails = 0 /\ log'[r].wrote = {}
            /\ appts' = appts
            /\ consumed' = consumed]_vars

\* A run whose save threw after the names matched was answered 500, and the
\* appointment it had looked up is stored unverified.
C18_Witness ==
  \E r \in Reqs :
    /\ Replied(r, 500, "failed")
    /\ log[r].saves = 1 /\ log[r].saved = 0
    /\ log[r].thrown = <<"db">>
    /\ appointment[r] # <<>>
    /\ appts[appointment[r][1].id].paymentVerification = NoVerification
    /\ appointment[r][1].paymentVerification.decodedString = body[r].refNbr

ResponseCodes == {200, 400, 404, 409, 500}

\* C19: every request eventually receives exactly one response, provided
\* every external call eventually returns or fails; the response code is one
\* of 200, 400, 404, 409, 500, and it is 200 with status "verified" exactly
\* when the appointment save of that same request succeeded.
C19_OneResponse ==
  /\ [](\A r \in Reqs :
          /\ log[r].sent <= 1
          /\ log[r].sent = 1 <=> pc[r] = "done"
          /\ pc[r] = "done" =>
               /\ res[r].code \in ResponseCodes
               /\ res[r].code = 200 <=> log[r].saved = 1
               /\ res[r].code = 200 <=> res[r].status = "verified")
  /\ \A r \in Reqs : (pc[r] \notin {"idle", "done", "retired"}) ~> (pc[r] = "done")

\* A request was answered 200 after its third provider attempt and its save.
C19_Witness ==
  \E r \in Reqs :
    /\ Replied(r, 200, "verified")
    /\ log[r].calls = 3
    /\ log[r].saved = 1

\* Document a of the next state differs from its stored state at most in
\* paymentVerification.
OnlyVerificationChanged(a) ==
  appts'[a] = [appts[a] EXCEPT !.paymentVerification = appts'[a].paymentVerification]

\* C20: a request changes at most one appointment, the one whose bookingId
\* equals its bookingID, and of it only paymentVerification; every other
\* appointment, and that appointment's id, bookingId, userDetails, timeSlot
\* and amount, are unchanged; no appointment is created or deleted.
C20_Frame ==
  [][/\ DOMAIN appts' = DOMAIN appts
     /\ \A a \in ApptIds :
          appts'[a] # appts[a] =>
            /\ OnlyVerificationChanged(a)
            /\ \A b \in ApptIds \ {a} : appts'[b] = appts[b]
            /\ \E r \in Reqs :
                 /\ pc[r] = "saving" /\ pc'[r] # "saving"
                 /\ body[r].bookingID = appts[a].bookingId
                 /\ \A q \in Reqs \ {r} : pc'[q] = pc[q]]_vars

\* Appointment B1 is verified after two requests for it were answered 200,
\* and appointment B2 is as it was created.
C20_Witness ==
  /\ appts[1].paymentVerification.status = "verified"
  /\ appts[2] = InitialAppointment(2)
  /\ \A r \in Reqs : r <= NConcurrent =>
       (Replied(r, 200, "verified") /\ body[r].bookingID = appts[1].bookingId)

=============================================================================
